---- MODULE Spec2Model ----
(***************************************************************************)
(* A model of scripts/oneapi_gdb.py (LLNL STAT, the Intel(R) Distribution  *)
(* for GDB* driver): thread enumeration with the STAT_INTELGT_EXPR_FILTER  *)
(* validation and the STAT_INTELGT_MAX_THREADS limit, bt, backtrace frame  *)
(* parsing and the collapsing of template brackets and call signatures.    *)
(*                                                                         *)
(* A Python str is a sequence of one-character strings, so that strip(),   *)
(* lower(), "in", replace() and the regular expressions are computed and   *)
(* not assumed.  An optional value (os.environ.get, a regex group) is a    *)
(* record [present, val].                                                  *)
(***************************************************************************)
EXTENDS Integers, Sequences, FiniteSets, TLC

VARIABLES
    pc,                 \* position of get_thread_list: start, await_probe, await_enum, done
    env_filter,         \* os.environ.get("STAT_INTELGT_EXPR_FILTER") as read at line 109
    filter_expr_str,    \* the local of that name (stripped at line 121)
    validation_result,  \* reply of the channel to the probe (line 140), None before it
    is_valid,           \* the local of that name (lines 143-162)
    sent,               \* every command handed to self.communicate, in order
    tids,               \* reply of the channel to the enumeration command (line 184)
    max_threads,        \* os.environ.get("STAT_INTELGT_MAX_THREADS") as read at line 191
    result,             \* what get_thread_list returns: the list and the exception raised
    designator,         \* argument of clean_cpp_template_brackets_and_call_signature
    cpc,                \* how often the function was applied: input, once, twice
    templated,          \* the local string after the loop of lines 57-58, on designator
    collapsed,          \* the value of the function on designator
    collapsed_again,    \* its value on collapsed
    bt_line,            \* argument of parse_frameinfo_from_backtrace
    fpc,                \* line (not yet parsed), parsed
    frame,              \* what it returns on bt_line: the record and the exception raised
    ex_width,           \* arguments of expand_simd_spec_mi
    ex_mask,
    epc,                \* args (not yet expanded), expanded
    ex_lanes,           \* its value on them
    mi_threads,         \* the 'threads' of the payload given to parse_thread_info_mi
    parse_simd_lanes,   \* its second argument
    mpc,                \* payload (not yet parsed), parsed
    mi_tids,            \* its value on them
    thread_id,          \* argument of bt
    bt_sent,            \* every command bt handed to self.communicate, in order
    bt_lines,           \* reply of the channel to the backtrace command (line 220)
    bpc,                \* position of bt: start, await_bt, done
    bt_result           \* what bt returns: the list of frames and the exception raised

threadVars == <<pc, env_filter, filter_expr_str, validation_result, is_valid, sent, tids,
                max_threads, result>>
collapseVars == <<designator, cpc, templated, collapsed, collapsed_again>>
frameVars == <<bt_line, fpc, frame>>

expandVars == <<ex_width, ex_mask, epc, ex_lanes>>
miVars == <<mi_threads, parse_simd_lanes, mpc, mi_tids>>

btVars == <<thread_id, bt_sent, bt_lines, bpc, bt_result>>

vars == <<threadVars, collapseVars, frameVars, expandVars, miVars, btVars>>

----------------------------------------------------------------------------
(* Python str primitives *)

Absent == [present |-> FALSE, val |-> <<>>]
Some(s) == [present |-> TRUE, val |-> s]

\* a reply of the channel is a list of lines, Some(lines), or None
None == [present |-> FALSE, val |-> <<>>]

\* not reply, as lines 145 and 185 test it
Falsy(reply) == ~reply.present \/ reply.val = <<>>

\* the least and the greatest of a set of integers that is not empty
SetMin(S) == CHOOSE x \in S : \A y \in S : x <= y
SetMax(S) == 0 - SetMin({0 - x : x \in S})

\* the control characters 0x0b and 0x1c to 0x1f, which have no escape
VT == ""
FS == ""
GS == ""
RS == ""
US == ""

\* the white space of str.strip(), str.isspace() and \s among the ASCII
\* characters; the strings of the model are ASCII
WhiteSpace == {" ", "\t", "\n", "\r", "\f", VT, FS, GS, RS, US}

\* the white space that int() drops around the digits of an ASCII str
IntSpace == {" ", "\t", "\n", "\r", "\f", VT}

DigitChars == <<"0", "1", "2", "3", "4", "5", "6", "7", "8", "9">>
IsDigit(c) == \E i \in 1..10 : DigitChars[i] = c
DigitVal(c) == (CHOOSE i \in 1..10 : DigitChars[i] = c) - 1

UpperChars == <<"A", "B", "C", "D", "E", "F", "G", "H", "I", "J", "K", "L", "M", "N", "O", "P", "Q", "R", "S", "T", "U", "V", "W", "X", "Y", "Z">>
LowerChars == <<"a", "b", "c", "d", "e", "f", "g", "h", "i", "j", "k", "l", "m", "n", "o", "p", "q", "r", "s", "t", "u", "v", "w", "x", "y", "z">>

\* str.lower() on one character
Lower(c) ==
    IF \E i \in 1..26 : UpperChars[i] = c
    THEN LowerChars[CHOOSE i \in 1..26 : UpperChars[i] = c]
    ELSE c

\* str.lower()
LowerStr(s) == [i \in 1..Len(s) |-> Lower(s[i])]

\* s without the characters of chars at its two ends
StripOf(s, chars) ==
    LET keep == {i \in 1..Len(s) : s[i] \notin chars}
    IN  IF keep = {} THEN <<>>
        ELSE SubSeq(s, SetMin(keep), SetMax(keep))

\* str.strip()
Strip(s) == StripOf(s, WhiteSpace)

\* s[i:].startswith(lit), i counted from 1
MatchAt(s, i, lit) ==
    /\ i >= 1
    /\ i + Len(lit) - 1 <= Len(s)
    /\ \A k \in 1..Len(lit) : s[i + k - 1] = lit[k]

\* lit in s
Contains(s, lit) == \E i \in 1..(Len(s) + 1) : MatchAt(s, i, lit)

\* s.startswith(lit)
StartsWith(s, lit) == MatchAt(s, 1, lit)

\* sys.get_int_max_str_digits() of Python 3.11 and later: int() of a str with
\* more decimal digits than this raises ValueError, leading zeros counted
int_max_str_digits == 4300

\* the str of n times the character c
Repeat(c, n) == [i \in 1..n |-> c]

\* ds without its leading zeros
Significant(ds) ==
    LET nonzero == {i \in 1..Len(ds) : ds[i] # "0"}
    IN  IF nonzero = {} THEN <<>>
        ELSE SubSeq(ds, CHOOSE i \in nonzero : \A j \in nonzero : i <= j, Len(ds))

\* the value of a run of decimal digits without leading zeros
RECURSIVE DecDigits(_)
DecDigits(ds) ==
    IF ds = <<>> THEN 0
    ELSE 10 * DecDigits(SubSeq(ds, 1, Len(ds) - 1)) + DigitVal(ds[Len(ds)])

\* int(ds) of a run of decimal digits: ok is FALSE when it raises ValueError
DecValue(ds) ==
    IF Len(ds) > int_max_str_digits
    THEN [ok |-> FALSE, val |-> 0]
    ELSE [ok |-> TRUE, val |-> DecDigits(Significant(ds))]

\* int(s) of a str: the white space of IntSpace around it is dropped, one sign
\* is allowed, the rest is decimal digits, with single underscores allowed
\* between digits; anything else, and more than int_max_str_digits digits, is
\* a ValueError (ok = FALSE)
PyInt(s) ==
    LET t == StripOf(s, IntSpace)
        signed == t # <<>> /\ t[1] \in {"+", "-"}
        body == IF signed THEN Tail(t) ELSE t
        wellformed ==
            /\ body # <<>>
            /\ \A i \in 1..Len(body) :
                \/ IsDigit(body[i])
                \/ /\ body[i] = "_"
                   /\ i > 1 /\ i < Len(body)
                   /\ IsDigit(body[i - 1]) /\ IsDigit(body[i + 1])
        mag == DecValue(SelectSeq(body, IsDigit))
    IN  IF wellformed /\ mag.ok
        THEN [ok |-> TRUE, val |-> IF signed /\ t[1] = "-" THEN 0 - mag.val ELSE mag.val]
        ELSE [ok |-> FALSE, val |-> 0]

----------------------------------------------------------------------------
(* get_thread_list: the commands *)

\* thread apply all -q -c printf "%d.%d\n", $_inferior, $_thread
UnfilteredCmd ==
    <<"t", "h", "r", "e", "a", "d", " ", "a", "p", "p", "l", "y", " ", "a", "l", "l", " ", "-",
      "q", " ", "-", "c", " ", "p", "r", "i", "n", "t", "f", " ", "\"", "%", "d", ".", "%",
      "d", "\\", "n", "\"", ",", " ", "$", "_", "i", "n", "f", "e", "r", "i", "o", "r", ",",
      " ", "$", "_", "t", "h", "r", "e", "a", "d">>

\* thread apply all -q -s eval "printf %s, $_inferior, $_thread", (
FilteredCmdHead ==
    <<"t", "h", "r", "e", "a", "d", " ", "a", "p", "p", "l", "y", " ", "a", "l", "l", " ", "-",
      "q", " ", "-", "s", " ", "e", "v", "a", "l", " ", "\"", "p", "r", "i", "n", "t", "f",
      " ", "%", "s", ",", " ", "$", "_", "i", "n", "f", "e", "r", "i", "o", "r", ",", " ", "$",
      "_", "t", "h", "r", "e", "a", "d", "\"", ",", " ", "(">>

\*  ? "\"%d.%d\n\"" : "\"\"")
FilteredCmdTail ==
    <<" ", "?", " ", "\"", "\\", "\"", "%", "d", ".", "%", "d", "\\", "n", "\\", "\"", "\"",
      " ", ":", " ", "\"", "\\", "\"", "\\", "\"", "\"", ")">>

\* the enumeration command guarded by the filter expression
FilteredCmd(expr) == FilteredCmdHead \o expr \o FilteredCmdTail

PrintPrefix == <<"p", "r", "i", "n", "t", " ">>

\* validate_cmd
ValidateCmd(expr) == PrintPrefix \o expr

danger_list ==
    << <<"s", "h", "e", "l", "l">>,
       <<"c", "a", "l", "l">>,
       <<"p", "y", "t", "h", "o", "n">>,
       <<"s", "o", "u", "r", "c", "e">>,
       <<"d", "u", "m", "p">>,
       <<"r", "e", "s", "t", "o", "r", "e">> >>

----------------------------------------------------------------------------
(* get_thread_list: the checks made before anything is sent *)

\* filter_expr_str and filter_expr_str.strip()
NonBlank(e) == e.present /\ e.val # <<>> /\ Strip(e.val) # <<>>

HasNewline(expr) == \E i \in 1..Len(expr) : expr[i] \in {"\n", "\r"}

UsesDangerKeyword(expr) ==
    \E k \in 1..Len(danger_list) : Contains(LowerStr(expr), danger_list[k])

\* PassesChecks with the keywords looked up in the expression as written,
\* not in its lower-case form
PassesChecksCaseSensitive(expr) ==
    /\ ~HasNewline(expr)
    /\ ~\E k \in 1..Len(danger_list) : Contains(expr, danger_list[k])

\* the else branch of line 136 is reached
PassesChecks(expr) == ~HasNewline(expr) /\ ~UsesDangerKeyword(expr)

----------------------------------------------------------------------------
(* get_thread_list: classification of the reply to the probe *)

\* the pattern of lines 156-157 is a raw string that runs over a line break:
\* its first alternative ends with a space, an escaped line feed and the
\* indentation of line 157
NoSymbolHead == <<"n", "o", " ", "s", "y", "m", "b", "o", "l">>
NoSymbolTail ==
    <<"i", "n", " ", "c", "u", "r", "r", "e", "n", "t", " ", "c", "o", "n", "t", "e", "x", "t",
      " ", "\n", " ", " ", " ", " ", " ", " ", " ", " ", " ", " ", " ", " ", " ", " ", " ",
      " ", " ", " ", " ", " ", " ", " ", " ", " ", " ", " ", " ", " ", " ", " ", " ", " ", " ",
      " ", " ", " ", " ">>
CannotSubscript ==
    <<"c", "a", "n", "n", "o", "t", " ", "s", "u", "b", "s", "c", "r", "i", "p", "t", " ", "s",
      "o", "m", "e", "t", "h", "i", "n", "g", " ", "o", "f", " ", "t", "y", "p", "e">>

\* re.search(<the pattern>, line_str, re.IGNORECASE); "." matches no line feed
BenignErrorSearch(line_str) ==
    LET low == LowerStr(line_str)
    IN  \/ \E i \in 1..Len(low) :
            /\ MatchAt(low, i, NoSymbolHead)
            /\ \E j \in (i + Len(NoSymbolHead))..Len(low) :
                /\ MatchAt(low, j, NoSymbolTail)
                /\ \A k \in (i + Len(NoSymbolHead))..(j - 1) : low[k] # "\n"
        \/ Contains(low, CannotSubscript)

\* line_str.startswith('$') and '=' in line_str
EvaluatedMarker(line_str) ==
    StartsWith(line_str, <<"$">>) /\ Contains(line_str, <<"=">>)

\* one turn of the loop of lines 146-162 sets is_valid
LineAccepts(line) ==
    LET line_str == Strip(line)
    IN  EvaluatedMarker(line_str) \/ BenignErrorSearch(line_str)

\* ClassifyValid with an empty reply taken for a success
ClassifyValidFailOpen(reply) ==
    Falsy(reply) \/ \E i \in 1..Len(reply.val) : LineAccepts(reply.val[i])

\* is_valid after lines 143-162
ClassifyValid(reply) ==
    ~Falsy(reply) /\ \E i \in 1..Len(reply.val) : LineAccepts(reply.val[i])

\* EnumerationCmd with the expression embedded whatever the probe said
EnumerationCmdUnchecked(expr, valid) == FilteredCmd(expr)

\* cmd as it stands at line 184
EnumerationCmd(expr, valid) == IF valid THEN FilteredCmd(expr) ELSE UnfilteredCmd

----------------------------------------------------------------------------
(* get_thread_list: STAT_INTELGT_MAX_THREADS *)

\* tids[:n] for n > 0
Prefix(seq, n) == SubSeq(seq, 1, IF n < Len(seq) THEN n ELSE Len(seq))

\* LimitThreads keeping the last n lines, tids[-n:]
LimitThreadsSuffix(reply, limit) ==
    IF NonBlank(limit)
    THEN LET n == PyInt(limit.val)
         IN  IF ~n.ok THEN [ret |-> reply, exc |-> "none"]
             ELSE IF n.val <= 0 THEN [ret |-> reply, exc |-> "none"]
             ELSE [ret |-> SubSeq(reply,
                                  IF n.val < Len(reply) THEN Len(reply) - n.val + 1 ELSE 1,
                                  Len(reply)),
                   exc |-> "none"]
    ELSE [ret |-> reply, exc |-> "none"]

\* lines 193-205: the returned list and the exception that leaves the function
LimitThreads(reply, limit) ==
    IF NonBlank(limit)
    THEN LET n == PyInt(limit.val)
         IN  IF ~n.ok THEN [ret |-> reply, exc |-> "none"]
             ELSE IF n.val <= 0 THEN [ret |-> reply, exc |-> "none"]
             ELSE [ret |-> Prefix(reply, n.val), exc |-> "none"]
    ELSE [ret |-> reply, exc |-> "none"]

----------------------------------------------------------------------------
(* Inputs of get_thread_list *)

MaxProbeLines == 2
MaxTids == 2

\* white space put around an expression
FilterLead == <<"", "\n", " ">>
FilterTail == <<" ", "\t", "", "\f">>
FilterCore ==
    { <<>>,
      <<"x", ">", "1">>,
      <<"s", "h", "e", "l", " ", "l">>,
      <<"a", "\n", "b">>,
      <<"a", "\r", "b">>,
      <<"s", "h", "e", "L", "L", " ", "l", "s">>,
      <<"r", "e", "C", "a", "l", "l">>,
      <<"P", "Y", "T", "H", "O", "N">>,
      <<"s", "o", "u", "r", "c", "e", " ", "f">>,
      <<"d", "u", "m", "p">>,
      <<"R", "e", "s", "t", "o", "r", "e">>,
      <<"1", "\n", "s", "h", "e", "l", "l", " ", "r", "m">> }

FilterInputs ==
    {Absent} \cup
    {Some(c) : c \in FilterCore} \cup
    {Some(FilterLead \o c \o FilterTail) : c \in FilterCore}

ProbeLines ==
    { <<"$", "1", " ", "=", " ", "1">>,
      <<"\f", "$", "2", " ", "=", " ", "0", "">>,
      <<"N", "o", " ", "s", "y", "m", "b", "o", "l", " ", "\"", "x", "\"", " ", "i", "n", " ", "c", "u", "r", "r", "e", "n", "t", " ", "c", "o", "n", "t", "e", "x", "t", ".">>,
      <<"C", "a", "n", "n", "o", "t", " ", "S", "u", "b", "s", "c", "r", "i", "p", "t", " ", "S", "o", "m", "e", "t", "h", "i", "n", "g", " ", "O", "f", " ", "T", "y", "p", "e">>,
      <<"A", " ", "s", "y", "n", "t", "a", "x", " ", "e", "r", "r", "o", "r", " ", "i", "n", " ", "e", "x", "p", "r", "e", "s", "s", "i", "o", "n", ",", " ", "n", "e", "a", "r", " ", ".">>,
      <<"x", " ", "=", " ", "$", "1">>,
      <<"N", "o", " ", "s", "y", "m", "b", "o", "l", " ", "x", " ", "i", "n", " ", "c", "u", "r", "r", "e", "n", "t", " ", "c", "o", "n", "t", "e", "x", "t", " ", "\n", " ", " ", " ", " ", " ", " ", " ", " ", " ", " ", " ", " ", " ", " ", " ", " ", " ", " ", " ", " ", " ", " ", " ", " ", " ", " ", " ", " ", " ", " ", " ", " ", " ", " ", " ", " ", " ", "z">> }

RECURSIVE SeqsUpTo(_, _)
SeqsUpTo(S, n) ==
    IF n = 0 THEN {<<>>}
    ELSE LET shorter == SeqsUpTo(S, n - 1)
         IN  shorter \cup {Append(q, x) : q \in shorter, x \in S}

ProbeResponses == {None} \cup {Some(r) : r \in SeqsUpTo(ProbeLines, MaxProbeLines)}

TidLines == { <<"1", ".", "1">>, <<" ", "2", ".", "1", " ">>, <<>> }

EnumResponses == {None} \cup {Some(r) : r \in SeqsUpTo(TidLines, MaxTids)}

\* a limit with as many digits as int() takes, and one with one more
LongLimit == Repeat("0", int_max_str_digits - 1) \o <<"1">>
OverLongLimit == Repeat("9", int_max_str_digits + 1)

MaxThreadsInputs ==
    { Absent, Some(<<>>), Some(<<" ", "">>), Some(<<"1">>), Some(<<" ", "2", " ">>), Some(<<"\f", "2", "">>),
      Some(<<"", "2">>), Some(<<"-", "3">>), Some(<<"0">>), Some(<<"a", "b", "c">>), Some(<<"1", "0">>) }

\* the values of STAT_INTELGT_MAX_THREADS read at line 191 in a call whose
\* STAT_INTELGT_EXPR_FILTER is e: the long ones are drawn in the calls without
\* a filter only
LimitsFor(e) ==
    IF e = Absent THEN MaxThreadsInputs \cup {Some(LongLimit), Some(OverLongLimit)}
    ELSE MaxThreadsInputs

----------------------------------------------------------------------------
(* clean_cpp_template_brackets_and_call_signature *)

TemplateMarker == <<"<", ".", ".", ".", ">">>
SignatureMarker == <<"(", ".", ".", ".", ")">>

\* the loop of lines 42-55 from index idx on; begin and idx count from 1
RECURSIVE TemplateScan(_, _, _, _, _, _)
TemplateScan(s, idx, found, begin, counter, sub_strings) ==
    IF idx > Len(s) THEN sub_strings
    ELSE IF s[idx] = "<" /\ ~found
        THEN TemplateScan(s, idx + 1, TRUE, idx, 1, sub_strings)
    ELSE IF s[idx] = "<" /\ found
        THEN TemplateScan(s, idx + 1, found, begin, counter + 1, sub_strings)
    ELSE IF s[idx] = ">" /\ found /\ counter > 1
        THEN TemplateScan(s, idx + 1, found, begin, counter - 1, sub_strings)
    ELSE IF s[idx] = ">" /\ found /\ counter = 1
        THEN TemplateScan(s, idx + 1, FALSE, begin, counter - 1,
                          Append(sub_strings, SubSeq(s, begin, idx)))
    ELSE TemplateScan(s, idx + 1, found, begin, counter, sub_strings)

\* sub_strings after the loop of lines 42-55
TemplateSpans(s) == TemplateScan(s, 1, FALSE, 1, 0, <<>>)

\* s.replace(old, new) for a non-empty old: every occurrence, left to right,
\* the search going on after each replaced occurrence
RECURSIVE Replace(_, _, _)
Replace(s, old, new) ==
    IF Len(s) < Len(old) THEN s
    ELSE IF MatchAt(s, 1, old)
        THEN new \o Replace(SubSeq(s, Len(old) + 1, Len(s)), old, new)
    ELSE <<s[1]>> \o Replace(Tail(s), old, new)

\* the loop of lines 57-58 from the k-th recorded span on
RECURSIVE ReplaceSpans(_, _, _)
ReplaceSpans(s, sub_strings, k) ==
    IF k > Len(sub_strings) THEN s
    ELSE ReplaceSpans(Replace(s, sub_strings[k], TemplateMarker), sub_strings, k + 1)

\* string after lines 40-58
CollapseTemplates(s) == ReplaceSpans(s, TemplateSpans(s), 1)

IsParen(c) == c \in {"(", ")"}

\* ptrn.findall(string) for \([^()]+\)(?=[^()]*$): the (first, last) positions of
\* the matches; [^()] matches a line feed too, so the lookahead asks for no
\* parenthesis up to the end of the string
SignatureMatches(s) ==
    {ij \in (1..Len(s)) \X (1..Len(s)) :
        /\ s[ij[1]] = "(" /\ s[ij[2]] = ")"
        /\ ij[2] > ij[1] + 1
        /\ \A k \in (ij[1] + 1)..(ij[2] - 1) : ~IsParen(s[k])
        /\ \A k \in (ij[2] + 1)..Len(s) : ~IsParen(s[k])}

\* lines 60-63
CollapseSignature(s) ==
    LET match == SignatureMatches(s)
    IN  IF match = {} THEN s
        ELSE LET last == CHOOSE ij \in match : \A o \in match : o[1] <= ij[1]
             IN  Replace(s, SubSeq(s, last[1], last[2]), SignatureMarker)

\* lines 35-65
clean_cpp_template_brackets_and_call_signature(s) == CollapseSignature(CollapseTemplates(s))

----------------------------------------------------------------------------
(* parse_frameinfo_from_backtrace *)

\* frame_fromat (lines 79-80) is, item by item,
\*   ^#  \d+  \s+  (?:0x\S+)*  (?: in )*  G1  \s  \(  ANY  \)  \s  (?:at|from)  \s  G2  (?::)?  G3  $
\* with ANY any run of characters but line feeds, as long as possible, G1 the
\* group of ANY (function), G2 the group ([^:]+) (source) and G3 the optional
\* group (\d+)? (linenum).  Each operator below matches the pattern from one
\* item on, at position p, and returns the groups of the match that the
\* backtracking of re finds first: a greedy item takes the longest text that
\* lets the rest of the pattern match.

NoMatch == [ok |-> FALSE, function |-> <<>>, source |-> <<>>, linenum |-> Absent]

IsSpace(c) == c \in WhiteSpace
NonSpace(c) == c \notin WhiteSpace

\* for each position of s, whether its character is in the class
Digits(s) == [i \in 1..Len(s) |-> IsDigit(s[i])]
Spaces(s) == [i \in 1..Len(s) |-> IsSpace(s[i])]
NonSpaces(s) == [i \in 1..Len(s) |-> NonSpace(s[i])]
NotLineFeeds(s) == [i \in 1..Len(s) |-> s[i] # "\n"]
NotColons(s) == [i \in 1..Len(s) |-> s[i] # ":"]

\* the length of the longest run of characters of a class that starts at p
RunLen(s, p, in_class) ==
    LET stops == {i \in p..Len(s) : ~in_class[i]}
    IN  IF stops = {} THEN Len(s) - p + 1
        ELSE (CHOOSE i \in stops : \A j \in stops : i <= j) - p

\* rest[k] is the match of what follows a repetition of length k: the match
\* with the greatest k for which there is one
GreedyFirst(rest) ==
    LET K == {k \in DOMAIN rest : rest[k].ok}
    IN  IF K = {} THEN NoMatch ELSE rest[SetMax(K)]

\* $: the end of the string, or just before a line feed that ends it
AtEnd(s, p) == p = Len(s) + 1 \/ (p = Len(s) /\ s[p] = "\n")

\* G3 $
MatchLinenum(s, p) ==
    LET withDigits ==
            GreedyFirst([k \in 1..RunLen(s, p, Digits(s)) |->
                         IF AtEnd(s, p + k)
                           THEN [ok |-> TRUE, function |-> <<>>, source |-> <<>>,
                                 linenum |-> Some(SubSeq(s, p, p + k - 1))]
                           ELSE NoMatch])
    IN  IF withDigits.ok THEN withDigits
        ELSE IF AtEnd(s, p)
            THEN [ok |-> TRUE, function |-> <<>>, source |-> <<>>, linenum |-> Absent]
        ELSE NoMatch

\* (?::)? G3 $
MatchColon(s, p) ==
    IF p <= Len(s) /\ s[p] = ":" /\ MatchLinenum(s, p + 1).ok
    THEN MatchLinenum(s, p + 1)
    ELSE MatchLinenum(s, p)

\* G2 (?::)? G3 $
MatchSource(s, p) ==
    GreedyFirst([k \in 1..RunLen(s, p, NotColons(s)) |->
                 LET m == MatchColon(s, p + k)
                   IN  IF m.ok THEN [m EXCEPT !.source = SubSeq(s, p, p + k - 1)]
                       ELSE NoMatch])

\* \s (?:at|from) \s G2 ...
MatchKeyword(s, p) ==
    LET at == IF MatchAt(s, p + 1, <<"a", "t">>) /\ p + 3 <= Len(s) /\ IsSpace(s[p + 3])
              THEN MatchSource(s, p + 4) ELSE NoMatch
        from == IF MatchAt(s, p + 1, <<"f", "r", "o", "m">>) /\ p + 5 <= Len(s) /\ IsSpace(s[p + 5])
                THEN MatchSource(s, p + 6) ELSE NoMatch
    IN  IF p <= Len(s) /\ IsSpace(s[p])
        THEN IF at.ok THEN at ELSE from
        ELSE NoMatch

\* \s \( ANY \) \s (?:at|from) ...
MatchArguments(s, p) ==
    IF p + 1 <= Len(s) /\ IsSpace(s[p]) /\ s[p + 1] = "("
    THEN GreedyFirst([k \in 0..RunLen(s, p + 2, NotLineFeeds(s)) |->
                     IF p + 2 + k <= Len(s) /\ s[p + 2 + k] = ")"
                       THEN MatchKeyword(s, p + 3 + k)
                       ELSE NoMatch])
    ELSE NoMatch

\* G1 \s \( ANY \) ...
MatchFunction(s, p) ==
    GreedyFirst([k \in 0..RunLen(s, p, NotLineFeeds(s)) |->
                 LET m == MatchArguments(s, p + k)
                   IN  IF m.ok THEN [m EXCEPT !.function = SubSeq(s, p, p + k - 1)]
                       ELSE NoMatch])

\* (?: in )* G1 ...
RECURSIVE MatchIn(_, _)
MatchIn(s, p) ==
    LET more == IF MatchAt(s, p, <<" ", "i", "n", " ">>) THEN MatchIn(s, p + 4) ELSE NoMatch
    IN  IF more.ok THEN more ELSE MatchFunction(s, p)

\* (?:0x\S+)* (?: in )* ...
RECURSIVE MatchAddress(_, _)
MatchAddress(s, p) ==
    LET more == IF MatchAt(s, p, <<"0", "x">>)
                THEN GreedyFirst([k \in 1..RunLen(s, p + 2, NonSpaces(s)) |->
                                 MatchAddress(s, p + 2 + k)])
                ELSE NoMatch
    IN  IF more.ok THEN more ELSE MatchIn(s, p)

\* \s+ (?:0x\S+)* ...
MatchSpaces(s, p) ==
    GreedyFirst([k \in 1..RunLen(s, p, Spaces(s)) |-> MatchAddress(s, p + k)])

\* frame_fromat.match(string)
FrameMatch(s) ==
    IF s # <<>> /\ s[1] = "#"
    THEN GreedyFirst([k \in 1..RunLen(s, 2, Digits(s)) |-> MatchSpaces(s, 2 + k)])
    ELSE NoMatch

\* function, source, linenum and error after lines 74-77
NoFrame == [function |-> <<"U", "n", "k", "n", "o", "w", "n">>, source |-> <<"?", "?">>, linenum |-> 0, error |-> TRUE]

\* lines 82-93 on the match of line 81: the record returned, or the ValueError
\* of int(linenum) at line 88, which leaves the function
FrameResult(match) ==
    LET linenum == IF match.linenum.present THEN DecValue(match.linenum.val)
                   ELSE [ok |-> TRUE, val |-> 0]
    IN  IF match.ok
        THEN IF linenum.ok
             THEN [ret |-> [function |-> clean_cpp_template_brackets_and_call_signature(
                                             match.function),
                            source |-> match.source,
                            linenum |-> linenum.val,
                            error |-> FALSE],
                   exc |-> "none"]
             ELSE [ret |-> <<>>, exc |-> "ValueError"]
        ELSE [ret |-> [NoFrame EXCEPT
                        !.function = clean_cpp_template_brackets_and_call_signature(
                                         NoFrame.function)],
              exc |-> "none"]

\* lines 67-93
parse_frameinfo_from_backtrace(s) == FrameResult(FrameMatch(s))
----------------------------------------------------------------------------
(* expand_simd_spec_mi and parse_thread_info_mi.  oneapi_gdb_test.py imports  *)
(* and tests them, but oneapi_gdb.py no longer defines them: they are        *)
(* modelled from sections 4.1 and 4.2 of the specification, and where the    *)
(* two differ, from what test_info_threads expects.                          *)

\* the lanes from bit position i on, mask being the execution mask shifted by i
RECURSIVE ExpandFrom(_, _, _)
ExpandFrom(width, mask, i) ==
    IF i >= width THEN <<>>
    ELSE (IF mask % 2 = 1 THEN <<i>> ELSE <<>>) \o ExpandFrom(width, mask \div 2, i + 1)

\* expand_simd_spec_mi scanning one bit position too many
expand_simd_one_more(width, mask) ==
    IF width = 0 /\ mask = 0 THEN <<>> ELSE ExpandFrom(width + 1, mask, 0)

\* section 4.1: the active lanes, low to high
expand_simd_spec_mi(width, mask) ==
    IF width = 0 /\ mask = 0 THEN <<>> ELSE ExpandFrom(width, mask, 0)

NoNumber == [present |-> FALSE, val |-> 0]

DeviceTag == <<"(", "Z", "E">>
ThreadLabel == <<"T", "h", "r", "e", "a", "d">>
Unavailable == <<"u", "n", "a", "v", "a", "i", "l", "a", "b", "l", "e">>

\* str.strip('"')
StripQuotes(s) ==
    LET keep == {i \in 1..Len(s) : s[i] # "\""}
    IN  IF keep = {} THEN <<>>
        ELSE SubSeq(s, SetMin(keep), SetMax(keep))

\* the leading token of s that white space delimits
FirstToken(s) ==
    LET t == Strip(s)
    IN  SubSeq(t, 1, RunLen(t, 1, NonSpaces(t)))

\* str(n) for n >= 0
RECURSIVE IntToStr(_)
IntToStr(n) ==
    IF n < 10 THEN <<DigitChars[n + 1]>>
    ELSE IntToStr(n \div 10) \o <<DigitChars[(n % 10) + 1]>>

HexChars == <<"0", "1", "2", "3", "4", "5", "6", "7", "8", "9", "a", "b", "c", "d", "e", "f">>
HexVal(c) == (CHOOSE i \in 1..16 : HexChars[i] = Lower(c)) - 1

RECURSIVE HexValue(_)
HexValue(ds) ==
    IF ds = <<>> THEN 0
    ELSE 16 * HexValue(SubSeq(ds, 1, Len(ds) - 1)) + HexVal(ds[Len(ds)])

\* the value of an execution-mask such as "0xf", quotes included
MaskValue(s) ==
    LET t == StripQuotes(s)
    IN  HexValue(IF StartsWith(t, <<"0", "x">>) THEN SubSeq(t, 3, Len(t)) ELSE t)

\* section 4.2: a record whose name holds the device tag is a GPU thread
IsGpu(rec) == Contains(rec.name, DeviceTag)

\* section 4.2: a record whose target-id is a thread label, and is no GPU thread
IsCpu(rec) == ~IsGpu(rec) /\ Contains(rec.target_id, ThreadLabel)

\* Surfaced comparing the state with its quotes on
SurfacedQuoted(rec) == rec.state # Unavailable

\* section 3: a record whose state is unavailable is dropped
Surfaced(rec) == StripQuotes(rec.state) # Unavailable

\* section 4.2: str(id) of a CPU thread, the leading token of the name of a GPU thread
TidOf(rec) ==
    IF IsGpu(rec) THEN StripQuotes(FirstToken(rec.name)) ELSE IntToStr(rec.id)

HasSimd(rec) == rec.simd_width.present \/ rec.execution_mask.present

\* the identifiers one record contributes when lanes are collected
LaneIds(rec) ==
    LET width == IF rec.simd_width.present THEN rec.simd_width.val ELSE 0
        mask == IF rec.execution_mask.present THEN MaskValue(rec.execution_mask.val) ELSE 0
        lanes == expand_simd_spec_mi(width, mask)
    IN  IF width = 0 /\ mask = 0 THEN <<TidOf(rec)>>
        ELSE [k \in 1..Len(lanes) |-> TidOf(rec) \o <<":">> \o IntToStr(lanes[k])]

RECURSIVE Flatten(_)
Flatten(seqs) == IF seqs = <<>> THEN <<>> ELSE Head(seqs) \o Flatten(Tail(seqs))

\* section 4.2, structured payload mode
parse_thread_info_mi(threads, lanes) ==
    LET cpu == SelectSeq(threads, LAMBDA r : Surfaced(r) /\ IsCpu(r))
        gpu == SelectSeq(threads, LAMBDA r : Surfaced(r) /\ IsGpu(r))
        all == cpu \o gpu
    IN  IF lanes /\ \E k \in 1..Len(all) : HasSimd(all[k])
        THEN Flatten([k \in 1..Len(all) |-> LaneIds(all[k])])
        ELSE [k \in 1..Len(all) |-> TidOf(all[k])]

----------------------------------------------------------------------------
(* Inputs of the two parsing functions *)

MaxDesignatorLen == 6

DesignatorChars == {"<", ">", "(", ")", "a"}

Designators ==
    { <<"A", "<", "i", "n", "t", ">", ":", ":", "B", "<", "C", "<", "i", "n", "t", ">", ">">>,
      <<"S", "u", "b", "K", "e", "r", "n", "e", "l", "<", "0", ">", ":", ":", "S", "u", "b", "K", "e", "r", "n", "e", "l", "I", "m", "p", "<", "a", "<", "f", ",", " ", "1", ",", " ", "(", "m", ")", "1", "0", "2", "4", ">", " ", ">", "(", "a", "<", "f", ">", " ", "c", "o", "n", "s", "t", "&", ")">>,
      <<"S", "<", "0", ",", " ", "a", "<", ">", " ", ">", ":", ":", "o", "p", "e", "r", "a", "t", "o", "r", "(", ")", "(", "n", "<", "1", ">", ")", " ", "c", "o", "n", "s", "t">>,
      <<"a", "<", "b", "(", "c", "<", "d", ")", "e", ">">>,
      <<"f", "(", "x", ")", "(", "x", ")">> }

CollapseInputs == SeqsUpTo(DesignatorChars, MaxDesignatorLen) \cup Designators

FrameIndex == { <<"#", "0">>, <<"#", "1", "2">>, <<"#">> }
FrameGap == { <<" ", " ">>, <<"\f", "">>, <<>> }
FrameAddress == { <<>>, <<"0", "x", "0", "0", "f", " ", "i", "n", " ">>, <<"0", "x", "0", "0", "f", " ">>, <<"i", "n", " ">> }
FrameFunction ==
    { <<"F", "o", "o", ":", ":", "B", "a", "r">>, <<"K", "<", "0", ">", ":", ":", "I", "m", "p", "<", "a", "<", "f", ",", " ", "(", "m", ")", "1", ">", " ", ">", "(", "a", "<", "f", ">", " ", "c", "o", "n", "s", "t", "&", ")">>, <<"S", "<", "0", ">", ":", ":", "o", "p", "e", "r", "a", "t", "o", "r", "(", ")", "(", "n", "<", "1", ">", ")", " ", "c", "o", "n", "s", "t">>,
      <<>> }
FrameArguments == { <<" ", "(", "a", "=", "1", ")">>, <<" ", "(", ")">>, <<" ", "(", "a", "=", "(", "b", ")", ",", " ", "c", "=", ".", ".", ".", ")">>, <<"(", "a", "=", "1", ")">>, <<>> }
FrameLocation ==
    { <<" ", "a", "t", " ", "f", "i", "l", "e", ".", "h", ":", "3", "7">>, <<" ", "f", "r", "o", "m", " ", "/", "l", "i", "b", "/", "l", ".", "s", "o">>, <<" ", "a", "t", " ", "f", "i", "l", "e", ".", "h">>, <<" ", "a", "t", " ", "f", "i", "l", "e", ".", "h", ":">>,
      <<" ", "a", "t", " ", "a", ":", "b", ":", "3">>, <<" ", "a", "t", " ", "f", "i", "l", "e", ".", "h", ":", "0", "0", "7">>, <<" ", "i", "n", " ", "f", "i", "l", "e", ".", "h", ":", "3">>, <<" ", "a", "t", " ", "f", "i", "l", "e", ".", "h", ":", "3", "7", "\n">>,
      <<" ", "a", "t", " ", ":", "3">>, <<" ", "f", "r", "o", "m", " ", "l", ".", "s", "o", ":", "1", "2">>, <<" ", "a", "t", " ", "f", ".", "h", ":", "3", " ">>, <<>> }

OtherLines == { <<>>, <<"T", "h", "r", "e", "a", "d", " ", "1", " ", "(", "L", "W", "P", " ", "1", ")", ":">>, <<"0", " ", " ", "f", " ", "(", ")", " ", "a", "t", " ", "a", ".", "c", ":", "1">>, <<"#", "1", " ", " ", "0", "x", "0", "0", "f", " ", "i", "n", " ", "f", " ", "(", ")", " ", "a", "t", " ", "a", ".", "c", ":", "1", "\n", "\n">> }

\* frame lines whose line number has as many digits as int() takes, and one more
LongLine == <<"#", "0", " ", " ", "f", " ", "(", ")", " ", "a", "t", " ", "a", ".", "c", ":">> \o Repeat("0", int_max_str_digits - 1) \o <<"7">>
OverLongLine == <<"#", "0", " ", " ", "f", " ", "(", ")", " ", "a", "t", " ", "a", ".", "c", ":">> \o Repeat("9", int_max_str_digits + 1)

FrameLines ==
    OtherLines \cup {LongLine, OverLongLine} \cup
    {i \o g \o a \o f \o r \o l :
        i \in FrameIndex, g \in FrameGap, a \in FrameAddress, f \in FrameFunction,
        r \in FrameArguments, l \in FrameLocation}


----------------------------------------------------------------------------
(* The state of a function that is not running *)

CollapseIdle ==
    /\ designator = <<>>
    /\ cpc = "idle"
    /\ templated = <<>>
    /\ collapsed = <<>>
    /\ collapsed_again = <<>>

FrameIdle ==
    /\ bt_line = <<>>
    /\ fpc = "idle"
    /\ frame = [ret |-> NoFrame, exc |-> "none"]

ExpandIdle ==
    /\ ex_width = 0
    /\ ex_mask = 0
    /\ epc = "idle"
    /\ ex_lanes = <<>>

MiIdle ==
    /\ mi_threads = <<>>
    /\ parse_simd_lanes = FALSE
    /\ mpc = "idle"
    /\ mi_tids = <<>>


BtIdle ==
    /\ thread_id = <<>>
    /\ bt_sent = <<>>
    /\ bt_lines = None
    /\ bpc = "idle"
    /\ bt_result = [ret |-> <<>>, exc |-> "none"]
----------------------------------------------------------------------------
(* get_thread_list as a state machine; it blocks twice on the channel *)

ThreadsIdle ==
    /\ pc = "idle"
    /\ env_filter = Absent
    /\ filter_expr_str = Absent
    /\ validation_result = None
    /\ is_valid = FALSE
    /\ sent = <<>>
    /\ tids = None
    /\ max_threads = Absent
    /\ result = [ret |-> <<>>, exc |-> "none"]

Init ==
    /\ CollapseIdle
    /\ FrameIdle
    /\ ExpandIdle
    /\ MiIdle
    /\ BtIdle
    /\ pc = "start"
    /\ env_filter = Absent
    /\ filter_expr_str = Absent
    /\ validation_result = None
    /\ is_valid = FALSE
    /\ sent = <<>>
    /\ tids = None
    /\ max_threads = Absent
    /\ result = [ret |-> <<>>, exc |-> "none"]

\* lines 109-140, and lines 176-184 when no probe is made
get_thread_list ==
    /\ pc = "start"
    /\ \E e \in FilterInputs :
        LET f == IF NonBlank(e) THEN Some(Strip(e.val)) ELSE e
        IN  /\ env_filter' = e
            /\ filter_expr_str' = f
            /\ IF NonBlank(e) /\ PassesChecks(f.val)
               THEN /\ sent' = Append(sent, ValidateCmd(f.val))
                    /\ pc' = "await_probe"
               ELSE /\ sent' = Append(sent, UnfilteredCmd)
                    /\ pc' = "await_enum"
    /\ UNCHANGED <<validation_result, is_valid, tids, max_threads, result>>
    /\ UNCHANGED <<collapseVars, frameVars, expandVars, miVars, btVars>>

\* lines 140-184: the reply to the probe arrives
probe_reply ==
    /\ pc = "await_probe"
    /\ \E r \in ProbeResponses :
        /\ validation_result' = r
        /\ is_valid' = ClassifyValid(r)
        /\ sent' = Append(sent, EnumerationCmd(filter_expr_str.val, ClassifyValid(r)))
    /\ pc' = "await_enum"
    /\ UNCHANGED <<env_filter, filter_expr_str, tids, max_threads, result>>
    /\ UNCHANGED <<collapseVars, frameVars, expandVars, miVars, btVars>>

\* enum_reply sending the enumeration command once more when the reply is empty
enum_reply_retry ==
    /\ pc = "await_enum"
    /\ \E t \in EnumResponses :
        /\ tids' = t
        /\ IF Falsy(t)
           THEN /\ max_threads' = Absent
                /\ result' = [ret |-> <<>>, exc |-> "none"]
                /\ sent' = IF Len(sent) < 3 THEN Append(sent, sent[Len(sent)]) ELSE sent
                /\ pc' = IF Len(sent) < 3 THEN "await_enum" ELSE "done"
           ELSE /\ \E m \in LimitsFor(env_filter) :
                    /\ max_threads' = m
                    /\ result' = LimitThreads(t.val, m)
                /\ sent' = sent
                /\ pc' = "done"
    /\ UNCHANGED <<env_filter, filter_expr_str, validation_result, is_valid>>
    /\ UNCHANGED <<collapseVars, frameVars, expandVars, miVars, btVars>>

\* lines 184-209: the reply to the enumeration command arrives
enum_reply ==
    /\ pc = "await_enum"
    /\ \E t \in EnumResponses :
        /\ tids' = t
        /\ IF Falsy(t)
           THEN /\ max_threads' = Absent
                /\ result' = [ret |-> <<>>, exc |-> "none"]
           ELSE \E m \in LimitsFor(env_filter) :
                /\ max_threads' = m
                /\ result' = LimitThreads(t.val, m)
    /\ pc' = "done"
    /\ UNCHANGED <<env_filter, filter_expr_str, validation_result, is_valid, sent>>
    /\ UNCHANGED <<collapseVars, frameVars, expandVars, miVars, btVars>>

Next == get_thread_list \/ probe_reply \/ enum_reply

Spec == Init /\ [][Next]_vars


----------------------------------------------------------------------------
(* clean_cpp_template_brackets_and_call_signature applied to a designator,   *)
(* and then to its own result                                                *)

InitCollapse ==
    /\ ThreadsIdle
    /\ FrameIdle
    /\ ExpandIdle
    /\ MiIdle
    /\ BtIdle
    /\ designator \in CollapseInputs
    /\ cpc = "input"
    /\ templated = <<>>
    /\ collapsed = <<>>
    /\ collapsed_again = <<>>

Collapse ==
    /\ cpc = "input"
    /\ templated' = CollapseTemplates(designator)
    /\ collapsed' = clean_cpp_template_brackets_and_call_signature(designator)
    /\ cpc' = "once"
    /\ UNCHANGED <<designator, collapsed_again, threadVars, frameVars, expandVars, miVars, btVars>>

CollapseAgain ==
    /\ cpc = "once"
    /\ collapsed_again' = clean_cpp_template_brackets_and_call_signature(collapsed)
    /\ cpc' = "twice"
    /\ UNCHANGED <<designator, templated, collapsed, threadVars, frameVars, expandVars, miVars, btVars>>

NextCollapse == Collapse \/ CollapseAgain

SpecCollapse == InitCollapse /\ [][NextCollapse]_vars

----------------------------------------------------------------------------
(* parse_frameinfo_from_backtrace applied to a line *)

InitFrame ==
    /\ ThreadsIdle
    /\ CollapseIdle
    /\ ExpandIdle
    /\ MiIdle
    /\ BtIdle
    /\ bt_line \in FrameLines
    /\ fpc = "line"
    /\ frame = [ret |-> NoFrame, exc |-> "none"]

ParseFrame ==
    /\ fpc = "line"
    /\ frame' = parse_frameinfo_from_backtrace(bt_line)
    /\ fpc' = "parsed"
    /\ UNCHANGED <<bt_line, threadVars, collapseVars, expandVars, miVars, btVars>>

NextFrame == ParseFrame

SpecFrame == InitFrame /\ [][NextFrame]_vars

----------------------------------------------------------------------------
(* expand_simd_spec_mi applied to a width and an execution mask *)

MaxWidth == 4

\* the widths up to MaxWidth and the width of the widest record of the tests;
\* the masks with bits up to position MaxWidth, one beyond the widest of these widths
ExpandWidths == 0..MaxWidth \cup {32}
ExpandMasks == 0..(2^(MaxWidth + 1) - 1)

InitExpand ==
    /\ ThreadsIdle
    /\ CollapseIdle
    /\ FrameIdle
    /\ MiIdle
    /\ BtIdle
    /\ ex_width \in ExpandWidths
    /\ ex_mask \in ExpandMasks
    /\ epc = "args"
    /\ ex_lanes = <<>>

Expand ==
    /\ epc = "args"
    /\ ex_lanes' = expand_simd_spec_mi(ex_width, ex_mask)
    /\ epc' = "expanded"
    /\ UNCHANGED <<ex_width, ex_mask, threadVars, collapseVars, frameVars, miVars, btVars>>

NextExpand == Expand

SpecExpand == InitExpand /\ [][NextExpand]_vars

----------------------------------------------------------------------------
(* parse_thread_info_mi applied to a payload; the records are those of       *)
(* oneapi_gdb_test.py (lines 32-39), and a CPU thread that is unavailable    *)

MaxRecords == 2

GpuRecord(id, target, name, mask, width, state) ==
    [id |-> id, target_id |-> target, name |-> name, execution_mask |-> Some(mask),
     simd_width |-> [present |-> TRUE, val |-> width], state |-> state]

CpuRecord(id, target, name, state) ==
    [id |-> id, target_id |-> target, name |-> name, execution_mask |-> Absent,
     simd_width |-> NoNumber, state |-> state]

t1_gpu == GpuRecord(8, <<"\"", "T", "h", "r", "e", "a", "d", " ", "8", "\"">>, <<"\"", "3", ".", "1", " ", "(", "Z", "E", " ", "0", ".", "0", ".", "0", ".", "0", ")", "\"">>, <<"\"", "0", "x", "f", "\"">>, 4, <<"\"", "s", "t", "o", "p", "p", "e", "d", "\"">>)
t2_gpu == GpuRecord(9, <<"\"", "T", "h", "r", "e", "a", "d", " ", "9", "\"">>, <<"\"", "3", ".", "2", " ", "(", "Z", "E", " ", "0", ".", "0", ".", "0", ".", "1", ")", "\"">>, <<"\"", "0", "x", "1", "\"">>, 4, <<"\"", "s", "t", "o", "p", "p", "e", "d", "\"">>)
t3_gpu == GpuRecord(12, <<"\"", "T", "h", "r", "e", "a", "d", " ", "1", "2", "\"">>, <<"\"", "3", ".", "5", " ", "(", "Z", "E", " ", "0", ".", "0", ".", "0", ".", "4", ")", "\"">>, <<"\"", "0", "x", "3", "\"">>, 4, <<"\"", "s", "t", "o", "p", "p", "e", "d", "\"">>)
t4_gpu_running ==
    GpuRecord(13, <<"\"", "T", "h", "r", "e", "a", "d", " ", "1", "2", "\"">>, <<"\"", "3", ".", "6", " ", "(", "Z", "E", " ", "0", ".", "0", ".", "0", ".", "4", ")", "\"">>, <<"\"", "0", "x", "3", "\"">>, 4, <<"\"", "r", "u", "n", "n", "i", "n", "g", "\"">>)
t5_gpu_unavailable ==
    GpuRecord(13, <<"\"", "T", "h", "r", "e", "a", "d", " ", "1", "2", "\"">>, <<"\"", "3", ".", "6", " ", "(", "Z", "E", " ", "0", ".", "0", ".", "0", ".", "4", ")", "\"">>, <<"\"", "0", "x", "3", "\"">>, 4, <<"\"", "u", "n", "a", "v", "a", "i", "l", "a", "b", "l", "e", "\"">>)
t6_gpu_zero_emask ==
    GpuRecord(13, <<"\"", "T", "h", "r", "e", "a", "d", " ", "1", "3", "\"">>, <<"\"", "3", ".", "6", " ", "(", "Z", "E", " ", "0", ".", "0", ".", "0", ".", "4", ")", "\"">>, <<"\"", "0", "x", "0">>, 32, <<"\"", "r", "u", "n", "n", "i", "n", "g", "\"">>)
t_cpu == CpuRecord(1, <<"\"", "T", "h", "r", "e", "a", "d", " ", "1", "\"">>, <<"\"", "m", "a", "i", "n", "\"">>, <<"\"", "s", "t", "o", "p", "p", "e", "d", "\"">>)
t_cpu_unavailable == CpuRecord(2, <<"\"", "T", "h", "r", "e", "a", "d", " ", "2", "\"">>, <<"\"", "w", "o", "r", "k", "e", "r", "\"">>, <<"\"", "u", "n", "a", "v", "a", "i", "l", "a", "b", "l", "e", "\"">>)

MiRecords ==
    {t1_gpu, t2_gpu, t3_gpu, t4_gpu_running, t5_gpu_unavailable, t6_gpu_zero_emask, t_cpu,
     t_cpu_unavailable}

InitMi ==
    /\ ThreadsIdle
    /\ CollapseIdle
    /\ FrameIdle
    /\ ExpandIdle
    /\ BtIdle
    /\ mi_threads \in SeqsUpTo(MiRecords, MaxRecords)
    /\ parse_simd_lanes \in BOOLEAN
    /\ mpc = "payload"
    /\ mi_tids = <<>>

ParseThreadInfo ==
    /\ mpc = "payload"
    /\ mi_tids' = parse_thread_info_mi(mi_threads, parse_simd_lanes)
    /\ mpc' = "parsed"
    /\ UNCHANGED <<mi_threads, parse_simd_lanes, threadVars, collapseVars, frameVars,
                   expandVars, btVars>>

NextMi == ParseThreadInfo

SpecMi == InitMi /\ [][NextMi]_vars

----------------------------------------------------------------------------
(* bt as a state machine; it blocks once on the channel *)

\* line 219
wpfa ==
    <<"w", "i", "t", "h", " ", "p", "r", "i", "n", "t", " ", "f", "r", "a", "m", "e", "-", "a",
      "r", "g", "u", "m", "e", "n", "t", "s", " ", "n", "o", "n", "e", " ", "-", "-">>

\* the command of line 220
BacktraceCmd(tid) == wpfa \o <<" ", "t", "h", "r", "e", "a", "d", " ", "a", "p", "p", "l", "y", " ">> \o tid \o <<" ", "b", "t">>

\* line 227 on what parse_frameinfo_from_backtrace gives: the frame appended
\* to ret, or its exception
FrameTurn(f) == [ret |-> IF f.exc = "none" THEN <<f.ret>> ELSE <<>>, exc |-> f.exc]

\* one turn of the loop of lines 223-227: the frames it appends to ret and
\* what it raises; line[0] of an empty line raises IndexError, a line that
\* does not start with # is skipped
Turn(line) ==
    IF line = <<>> THEN [ret |-> <<>>, exc |-> "IndexError"]
    ELSE IF line[1] # "#" THEN [ret |-> <<>>, exc |-> "none"]
    ELSE FrameTurn(parse_frameinfo_from_backtrace(line))

\* the loop of lines 223-228 as its turns, in order: the first exception
\* raised leaves bt, else ret holds the frames appended
Loop(turns) ==
    LET raising == {i \in 1..Len(turns) : turns[i].exc # "none"}
        appending == SelectSeq(turns, LAMBDA t : t.ret # <<>>)
    IN  IF raising # {}
        THEN [ret |-> <<>>, exc |-> turns[SetMin(raising)].exc]
        ELSE [ret |-> [k \in 1..Len(appending) |-> appending[k].ret[1]], exc |-> "none"]

\* lines 217-228 on the reply of the channel: lines[2:] of None raises
\* TypeError; lines[2:] of a list is scanned in order
FramesOf(lines) ==
    IF ~lines.present
    THEN [ret |-> <<>>, exc |-> "TypeError"]
    ELSE Loop([i \in 1..(Len(lines.val) - 2) |-> Turn(lines.val[i + 2])])

MaxBtLines == 4

ThreadIds == { <<"1", ".", "1">>, <<"2", ".", "3", ":", "0">> }

\* the lines a reply is made of: an empty line, the header of thread apply,
\* frames of both forms, a # line that is no frame, a line that is no # line
BtLines ==
    { <<>>,
      <<"T", "h", "r", "e", "a", "d", " ", "1", ".", "1", " ", "(", "T", "h", "r", "e", "a", "d", " ", "0", "x", "7", "f", "1", " ", "(", "L", "W", "P", " ", "7", ")", ")", ":">>,
      <<"#", "0", " ", " ", "f", "<", "i", "n", "t", ">", " ", "(", "a", "=", "1", ")", " ", "a", "t", " ", "a", ".", "c", ":", "1", "2">>,
      <<"#", "1", "", "0", "x", "0", "f", " ", "i", "n", " ", "g", "\f", "(", ")", " ", "f", "r", "o", "m", "", "/", "l", "i", "b", "/", "l", ".", "s", "o">>,
      <<"#", "2", " ", "c", "o", "r", "r", "u", "p", "t", " ", "s", "t", "a", "c", "k", "?">>,
      <<"B", "a", "c", "k", "t", "r", "a", "c", "e", " ", "s", "t", "o", "p", "p", "e", "d", ":", " ", "f", "r", "a", "m", "e", " ", "d", "i", "d", " ", "n", "o", "t", " ", "s", "a", "v", "e", " ", "t", "h", "e", " ", "P", "C">> }

BtHeader ==
    <<"T", "h", "r", "e", "a", "d", " ", "1", ".", "1", " ", "(", "T", "h", "r", "e", "a", "d",
      " ", "0", "x", "7", "f", "1", " ", "(", "L", "W", "P", " ", "7", ")", ")", ":">>

\* replies with a frame whose line number has as many digits as int() takes,
\* and with one that has one more, before and after an empty line
LongReplies ==
    { <<BtHeader, BtHeader, <<"#", "0", " ", " ", "f", "<", "i", "n", "t", ">", " ", "(", "a", "=", "1", ")", " ", "a", "t", " ", "a", ".", "c", ":", "1", "2">>, LongLine>>,
      <<BtHeader, BtHeader, OverLongLine>>,
      <<BtHeader, BtHeader, OverLongLine, <<>> >>,
      <<BtHeader, BtHeader, <<>>, OverLongLine>> }

BtResponses ==
    {None} \cup {Some(r) : r \in SeqsUpTo(BtLines, MaxBtLines) \cup LongReplies}

InitBt ==
    /\ ThreadsIdle
    /\ CollapseIdle
    /\ FrameIdle
    /\ ExpandIdle
    /\ MiIdle
    /\ thread_id = <<>>
    /\ bt_sent = <<>>
    /\ bt_lines = None
    /\ bpc = "start"
    /\ bt_result = [ret |-> <<>>, exc |-> "none"]

\* lines 216-220: the command is handed to the channel
bt ==
    /\ bpc = "start"
    /\ \E tid \in ThreadIds :
        /\ thread_id' = tid
        /\ bt_sent' = Append(bt_sent, BacktraceCmd(tid))
    /\ bpc' = "await_bt"
    /\ UNCHANGED <<bt_lines, bt_result>>
    /\ UNCHANGED <<threadVars, collapseVars, frameVars, expandVars, miVars>>

\* lines 220-228: the reply arrives
bt_reply ==
    /\ bpc = "await_bt"
    /\ \E r \in BtResponses :
        /\ bt_lines' = r
        /\ bt_result' = FramesOf(r)
    /\ bpc' = "done"
    /\ UNCHANGED <<thread_id, bt_sent>>
    /\ UNCHANGED <<threadVars, collapseVars, frameVars, expandVars, miVars>>

NextBt == bt \/ bt_reply

SpecBt == InitBt /\ [][NextBt]_vars

----------------------------------------------------------------------------
(* Properties of get_thread_list, checked under Spec *)

\* the words of the deny list, as the specification gives them
DeniedKeywords ==
    { <<"s", "h", "e", "l", "l">>, <<"c", "a", "l", "l">>, <<"p", "y", "t", "h", "o", "n">>, <<"s", "o", "u", "r", "c", "e">>, <<"d", "u", "m", "p">>, <<"r", "e", "s", "t", "o", "r", "e">> }

IsProbe(c) == StartsWith(c, PrintPrefix)

HasLineBreak(t) == \E i \in 1..Len(t) : t[i] = "\n" \/ t[i] = "\r"

HasDeniedKeyword(t) == \E k \in DeniedKeywords : Contains(LowerStr(t), k)

\* the expression, trimmed, holds a line break or a denied keyword in any case
RejectedStage1(e) ==
    e.present /\ (HasLineBreak(Strip(e.val)) \/ HasDeniedKeyword(Strip(e.val)))

\* the expression is there, not blank, and stage 1 lets it through
PassedStage1(e) == e.present /\ Strip(e.val) # <<>> /\ ~RejectedStage1(e)

\* a line of the reply shows a successful evaluation: trimmed, it starts with $
\* and holds =
MarkerLine(l) ==
    LET t == Strip(l)
    IN  t # <<>> /\ t[1] = "$" /\ \E i \in 1..Len(t) : t[i] = "="

InCurrentContext ==
    <<"i", "n", " ", "c", "u", "r", "r", "e", "n", "t", " ", "c", "o", "n", "t", "e", "x", "t">>

\* a line of the reply is one of the two benign errors, in any letter case
BenignLine(l) ==
    LET low == LowerStr(l)
    IN  \/ \E i \in 1..Len(low) :
            /\ MatchAt(low, i, NoSymbolHead)
            /\ \E j \in (i + Len(NoSymbolHead))..Len(low) : MatchAt(low, j, InCurrentContext)
        \/ Contains(low, CannotSubscript)

SyntaxErrorLine ==
    <<"A", " ", "s", "y", "n", "t", "a", "x", " ", "e", "r", "r", "o", "r", " ", "i", "n", " ",
      "e", "x", "p", "r", "e", "s", "s", "i", "o", "n", ",", " ", "n", "e", "a", "r", " ", ".">>
NoSymbolLine ==
    <<"N", "o", " ", "s", "y", "m", "b", "o", "l", " ", "\"", "x", "\"", " ", "i", "n", " ",
      "c", "u", "r", "r", "e", "n", "t", " ", "c", "o", "n", "t", "e", "x", "t", ".">>

\* C1: an expression that, trimmed, holds a line break or a deny-listed keyword
\* in any letter case is rejected before anything is sent: no probe (print
\* <expr>) is among the commands of the call
C1_NoProbeAfterRejection ==
    RejectedStage1(env_filter) => \A i \in 1..Len(sent) : ~IsProbe(sent[i])

\* a keyword written in mixed case was rejected and the call went through with
\* the enumeration command alone
C1_Witness ==
    /\ pc = "done"
    /\ RejectedStage1(env_filter)
    /\ ~HasLineBreak(Strip(env_filter.val))
    /\ Strip(env_filter.val) # LowerStr(Strip(env_filter.val))
    /\ Len(sent) = 1

\* C2: a call sends exactly one enumeration command; it is the guarded command
\* around the trimmed expression if the expression passed stage 1 and its probe
\* was classified valid, and in every other case it is the unfiltered command
C2_OneEnumerationCommand ==
    LET enum == SelectSeq(sent, LAMBDA c : ~IsProbe(c))
    IN  /\ Len(enum) = (IF pc \in {"await_enum", "done"} THEN 1 ELSE 0)
        /\ pc \in {"await_enum", "done"} =>
            IF PassedStage1(env_filter) /\ is_valid
            THEN enum[1] = FilteredCmdHead \o Strip(env_filter.val) \o FilteredCmdTail
            ELSE enum[1] = UnfilteredCmd

\* an expression passed stage 1, its probe was classified invalid, and the
\* call went on with the unfiltered command
C2_Witness ==
    /\ pc = "done"
    /\ PassedStage1(env_filter)
    /\ ~is_valid
    /\ Len(sent) = 2
    /\ sent[2] = UnfilteredCmd

\* C3: when the reply to the probe is None or empty, or has neither a line with the
\* marker of a successful evaluation nor a line with a benign error, the
\* expression is classified invalid and the unfiltered command is sent
C3_FailClosed ==
    (/\ pc = "await_enum"
     /\ Len(sent) = 2
     /\ \A i \in 1..Len(validation_result.val) :
            ~MarkerLine(validation_result.val[i]) /\ ~BenignLine(validation_result.val[i]))
    => (~is_valid /\ sent[2] = UnfilteredCmd)

\* the reply to the probe was a syntax error alone and the expression was
\* classified invalid
C3_Witness ==
    /\ pc = "await_enum"
    /\ Len(sent) = 2
    /\ validation_result = Some(<<SyntaxErrorLine>>)
    /\ ~is_valid
    /\ sent[2] = UnfilteredCmd

\* C4: when a line of the reply to the probe is a benign error (No symbol ... in
\* current context, or cannot subscript something of type), the expression is
\* classified valid and the guarded command is sent
C4_BenignErrorIsValid ==
    (/\ pc = "await_enum"
     /\ Len(sent) = 2
     /\ \E i \in 1..Len(validation_result.val) : BenignLine(validation_result.val[i]))
    => (is_valid /\ sent[2] = FilteredCmd(Strip(env_filter.val)))

Min(a, b) == IF a < b THEN a ELSE b

\* C5: for a reply L that is not empty, a STAT_INTELGT_MAX_THREADS that parses
\* to an integer n > 0 leaves the first min(n, |L|) lines of L, in order; one
\* that is absent, blank, not positive or unparsable leaves L as it is; no
\* exception leaves the function
C5_MaxThreadsKeepsPrefix ==
    (pc = "done" /\ ~Falsy(tids)) =>
        LET n == PyInt(max_threads.val)
            positive ==
                max_threads.present /\ Strip(max_threads.val) # <<>> /\ n.ok /\ n.val > 0
        IN  /\ result.exc = "none"
            /\ IF positive
               THEN result.ret = SubSeq(tids.val, 1, Min(n.val, Len(tids.val)))
               ELSE result.ret = tids.val
            /\ max_threads \in {Absent, Some(<<" ", "">>), Some(<<"-", "3">>), Some(<<"0">>), Some(<<"a", "b", "c">>),
                                Some(<<"", "2">>)}
                => result.ret = tids.val
            /\ max_threads = Some(<<"\f", "2", "">>) => result.ret = SubSeq(tids.val, 1, Min(2, Len(tids.val)))
            /\ max_threads = Some(<<"1">>) => result.ret = <<tids.val[1]>>
            /\ max_threads = Some(<<"1", "0">>) => result.ret = tids.val
            /\ max_threads = Some(LongLimit) => result.ret = <<tids.val[1]>>
            /\ max_threads = Some(OverLongLimit) => result.ret = tids.val

\* a limit of 1 cut a reply of two lines down to its first line
C5_Witness ==
    /\ pc = "done"
    /\ max_threads = Some(<<"1">>)
    /\ Len(tids.val) = 2
    /\ result.ret = <<tids.val[1]>>

\* the lines of a reply, trimmed, those that are then empty left out
TrimmedNonEmpty(reply) ==
    SelectSeq([i \in 1..Len(reply) |-> Strip(reply[i])], LAMBDA l : l # <<>>)

\* C10: without a limit, the list get_thread_list returns is the non-empty
\* lines of the reply to the enumeration command, each trimmed of the white
\* space around it, in the order of the reply
C10_TrimmedNonEmptyLines ==
    (pc = "done" /\ ~max_threads.present) => result.ret = TrimmedNonEmpty(tids.val)

----------------------------------------------------------------------------
(* Properties of parse_frameinfo_from_backtrace, checked under SpecFrame *)

Placeholder == [function |-> <<"U", "n", "k", "n", "o", "w", "n">>, source |-> <<"?", "?">>, linenum |-> 0, error |-> TRUE]

AtLine ==
    <<"#", "0", " ", " ", "F", "o", "o", ":", ":", "B", "a", "r", " ", "(", "a", "=", "1", ")",
      " ", "a", "t", " ", "f", "i", "l", "e", ".", "h", ":", "3", "7">>
FromLine ==
    <<"#", "0", " ", " ", "F", "o", "o", ":", ":", "B", "a", "r", " ", "(", "a", "=", "1", ")",
      " ", "f", "r", "o", "m", " ", "/", "l", "i", "b", "/", "l", ".", "s", "o">>
AddressLine ==
    <<"#", "0", " ", " ", "0", "x", "0", "0", "f", " ", "i", "n", " ", "F", "o", "o", ":", ":",
      "B", "a", "r", " ", "(", "a", "=", "1", ")", " ", "a", "t", " ", "f", "i", "l", "e", ".",
      "h", ":", "0", "0", "7">>
NoGapLine ==
    <<"#", "0", "F", "o", "o", ":", ":", "B", "a", "r", " ", "(", "a", "=", "1", ")", " ", "a",
      "t", " ", "f", "i", "l", "e", ".", "h", ":", "3", "7">>

\* C6: every line gives a frame record and no line raises; a line that does
\* not match the frame pattern gives exactly the placeholder record with error
\* set; a line that matches gives error unset and the line number as a natural
\* number, 0 when the line has none
C6_FrameRecordTotal ==
    fpc = "parsed" =>
        LET m == FrameMatch(bt_line)
        IN  /\ frame.exc = "none"
            /\ frame.ret.error = ~m.ok
            /\ ~m.ok => frame.ret = Placeholder
            /\ m.ok =>
                /\ frame.ret.source = m.source
                /\ frame.ret.linenum \in Nat
                /\ frame.ret.linenum =
                    IF m.linenum.present THEN DecValue(m.linenum.val).val ELSE 0
            /\ bt_line = AtLine =>
                frame.ret = [function |-> <<"F", "o", "o", ":", ":", "B", "a", "r">>, source |-> <<"f", "i", "l", "e", ".", "h">>, linenum |-> 37,
                         error |-> FALSE]
            /\ bt_line = FromLine =>
                frame.ret = [function |-> <<"F", "o", "o", ":", ":", "B", "a", "r">>, source |-> <<"/", "l", "i", "b", "/", "l", ".", "s", "o">>, linenum |-> 0,
                         error |-> FALSE]
            /\ bt_line = AddressLine =>
                frame.ret = [function |-> <<"F", "o", "o", ":", ":", "B", "a", "r">>, source |-> <<"f", "i", "l", "e", ".", "h">>, linenum |-> 7,
                         error |-> FALSE]
            /\ bt_line \in {NoGapLine, <<>>} => frame.ret = Placeholder
            /\ bt_line = LongLine => frame.ret.linenum = 7

\* what C6 says of the record, for the lines on which nothing is raised
FrameRecordWhenReturned ==
    (fpc = "parsed" /\ frame.exc = "none") =>
        LET m == FrameMatch(bt_line)
        IN  /\ frame.ret.error = ~m.ok
            /\ ~m.ok => frame.ret = Placeholder
            /\ m.ok =>
                /\ frame.ret.source = m.source
                /\ frame.ret.linenum \in Nat
            /\ bt_line = FromLine => (~frame.ret.error /\ frame.ret.linenum = 0)

----------------------------------------------------------------------------
(* Properties of clean_cpp_template_brackets_and_call_signature, checked     *)
(* under SpecCollapse                                                        *)

\* C7: applying the function to its own result changes nothing
C7_Idempotent == cpc = "twice" => collapsed_again = collapsed

----------------------------------------------------------------------------
(* Properties of expand_simd_spec_mi, checked under SpecExpand *)

\* bit i of a mask below 2^(MaxWidth + 1)
BitSet(mask, i) == i <= MaxWidth /\ (mask \div (2^i)) % 2 = 1

\* C8: the lanes are the bit positions below the width that are set in the mask,
\* in ascending order, the bits at or beyond the width being ignored; width 0
\* and mask 0 give no lane
C8_ActiveLanes ==
    epc = "expanded" =>
        /\ \A k \in 1..(Len(ex_lanes) - 1) : ex_lanes[k] < ex_lanes[k + 1]
        /\ {ex_lanes[k] : k \in 1..Len(ex_lanes)} =
            {i \in 0..(ex_width - 1) : BitSet(ex_mask, i)}
        /\ (ex_width = 0 /\ ex_mask = 0) => ex_lanes = <<>>
        /\ (ex_width = 4 /\ ex_mask = 15) => ex_lanes = <<0, 1, 2, 3>>
        /\ (ex_width = 4 /\ ex_mask = 1) => ex_lanes = <<0>>
        /\ (ex_width = 32 /\ ex_mask = 0) => ex_lanes = <<>>

\* a mask with a bit set at the width was expanded to the lanes below the width
C8_Witness ==
    /\ epc = "expanded"
    /\ ex_width = 2
    /\ ex_mask = 7
    /\ ex_lanes = <<0, 1>>

----------------------------------------------------------------------------
(* Properties of parse_thread_info_mi, checked under SpecMi *)

UnavailableState == <<"\"", "u", "n", "a", "v", "a", "i", "l", "a", "b", "l", "e", "\"">>

\* C9: a record whose state is unavailable contributes nothing: the result is
\* that of the payload without these records, it is empty when no other record
\* is there, and without lanes every other record gives one identifier
C9_UnavailableExcluded ==
    mpc = "parsed" =>
        LET kept == SelectSeq(mi_threads, LAMBDA r : r.state # UnavailableState)
        IN  /\ mi_tids = parse_thread_info_mi(kept, parse_simd_lanes)
            /\ kept = <<>> => mi_tids = <<>>
            /\ ~parse_simd_lanes => Len(mi_tids) = Len(kept)
            /\ (mi_threads = <<t2_gpu, t5_gpu_unavailable>> /\ parse_simd_lanes)
                => mi_tids = << <<"3", ".", "2", ":", "0">> >>
            /\ (mi_threads = <<t5_gpu_unavailable, t4_gpu_running>> /\ ~parse_simd_lanes)
                => mi_tids = << <<"3", ".", "6">> >>

\* a stopped record and an unavailable one were parsed with lanes: only the
\* lane of the stopped one came out
C9_Witness ==
    /\ mpc = "parsed"
    /\ mi_threads = <<t2_gpu, t5_gpu_unavailable>>
    /\ parse_simd_lanes
    /\ mi_tids = << <<"3", ".", "2", ":", "0">> >>

----------------------------------------------------------------------------
(* Properties of the two stages of                                           *)
(* clean_cpp_template_brackets_and_call_signature, checked under             *)
(* SpecCollapse                                                              *)

\* s with every span that the nesting counter closes replaced, where it
\* stands, by the marker; out is the text produced up to idx, and a span that
\* is still open at the end of s stays as it is
RECURSIVE SpansReplacedInPlace(_, _, _, _, _, _)
SpansReplacedInPlace(s, idx, found, begin, counter, out) ==
    IF idx > Len(s)
    THEN IF found THEN out \o SubSeq(s, begin, Len(s)) ELSE out
    ELSE IF s[idx] = "<" /\ ~found
        THEN SpansReplacedInPlace(s, idx + 1, TRUE, idx, 1, out)
    ELSE IF s[idx] = "<" /\ found
        THEN SpansReplacedInPlace(s, idx + 1, TRUE, begin, counter + 1, out)
    ELSE IF s[idx] = ">" /\ found /\ counter > 1
        THEN SpansReplacedInPlace(s, idx + 1, TRUE, begin, counter - 1, out)
    ELSE IF s[idx] = ">" /\ found
        THEN SpansReplacedInPlace(s, idx + 1, FALSE, begin, 0, out \o <<"<", ".", ".", ".", ">">>)
    ELSE IF found
        THEN SpansReplacedInPlace(s, idx + 1, TRUE, begin, counter, out)
    ELSE SpansReplacedInPlace(s, idx + 1, FALSE, begin, counter, Append(out, s[idx]))

\* C11: after template collapsing, every top-level balanced span of the
\* designator stands replaced, at its own position, by the marker <...>, also
\* when the text of one span occurs inside another span or equals a later one
C11_SpansReplacedInPlace ==
    cpc \in {"once", "twice"} =>
        templated = SpansReplacedInPlace(designator, 1, FALSE, 1, 0, <<>>)

\* s[i..j] is a parenthesized group: ( and ) around one or more characters
\* that are not parentheses
GroupAt(s, i, j) ==
    /\ s[i] = "(" /\ s[j] = ")"
    /\ j > i + 1
    /\ \A k \in (i + 1)..(j - 1) : s[k] \notin {"(", ")"}

\* the groups of s with no parenthesis after them: the trailing call signature
TrailingGroups(s) ==
    {ij \in (1..Len(s)) \X (1..Len(s)) :
        /\ GroupAt(s, ij[1], ij[2])
        /\ \A k \in (ij[2] + 1)..Len(s) : s[k] \notin {"(", ")"}}

HasGroup(s) == \E i \in 1..Len(s) : \E j \in 1..Len(s) : GroupAt(s, i, j)

\* C12: after template collapsing, the trailing parenthesized group alone is
\* replaced by (...), every other character staying as it is, earlier groups
\* of the same text included; a designator without a group is left unchanged
C12_OnlyTrailingGroupReplaced ==
    cpc \in {"once", "twice"} =>
        /\ \A ij \in TrailingGroups(templated) :
            collapsed = SubSeq(templated, 1, ij[1] - 1) \o <<"(", ".", ".", ".", ")">>
                        \o SubSeq(templated, ij[2] + 1, Len(templated))
        /\ ~HasGroup(templated) => collapsed = templated

----------------------------------------------------------------------------
(* Properties of bt, checked under SpecBt *)

\* the lines of a reply that begin with #
HashLines(lines) == SelectSeq(lines, LAMBDA l : l # <<>> /\ l[1] = "#")

\* C13: for a reply that opens with the two header lines of thread apply (no #
\* line among its first two lines), bt raises nothing and returns, in the order
\* of the reply, one frame record for each line that begins with #, whatever
\* the other lines are: malformed, no frame lines, or empty
C13_OneFramePerHashLine ==
    (/\ bpc = "done"
     /\ bt_lines.present
     /\ \A i \in 1..Len(bt_lines.val) : i <= 2 => HashLines(<<bt_lines.val[i]>>) = <<>>)
    => /\ bt_result.exc = "none"
       /\ Len(bt_result.ret) = Len(HashLines(bt_lines.val))
       /\ \A k \in 1..Len(bt_result.ret) :
            bt_result.ret[k] = parse_frameinfo_from_backtrace(HashLines(bt_lines.val)[k]).ret

----------------------------------------------------------------------------
(* The commands of one call of get_thread_list, checked under Spec *)

\* the commands sent so far are none, a probe, an enumeration command, or a
\* probe followed by an enumeration command, as the position of the call has it
CommandsInOrder ==
    /\ pc = "start" => sent = <<>>
    /\ pc = "await_probe" => (Len(sent) = 1 /\ IsProbe(sent[1]))
    /\ pc \in {"await_enum", "done"} =>
        \/ Len(sent) = 1 /\ ~IsProbe(sent[1])
        \/ Len(sent) = 2 /\ IsProbe(sent[1]) /\ ~IsProbe(sent[2])
    /\ (pc = "done" /\ Falsy(tids)) => result = [ret |-> <<>>, exc |-> "none"]

\* a step sends at most one command, after the commands sent before it; the
\* step that takes the reply to the enumeration command sends nothing and
\* ends the call
OneCommandAtATime ==
    /\ Len(sent') <= Len(sent) + 1
    /\ SubSeq(sent', 1, Len(sent)) = sent
    /\ pc = "await_enum" => (sent' = sent /\ pc' = "done")
    /\ pc = "done" => sent' = sent

\* C14: the commands of a call are [enumeration] or [probe, enumeration]: at
\* most one probe, sent before the enumeration command, each command sent only
\* when the reply to the one before it is in, the enumeration command last and
\* nothing sent after it, not even when its reply is empty, which gives an
\* empty result
C14_CommandSequence == [](CommandsInOrder) /\ [][OneCommandAtATime]_vars

\* a call sent a probe and then the enumeration command, got an empty reply
\* and ended with an empty result and no further command
C14_Witness ==
    /\ pc = "done"
    /\ Len(sent) = 2
    /\ IsProbe(sent[1])
    /\ ~IsProbe(sent[2])
    /\ tids = Some(<<>>)
    /\ result.ret = <<>>

====
